---- MODULE Spec2Model ----
(***************************************************************************)
(* rustwrk: one Worker (src/worker.rs) with its connection drivers and its *)
(* Statistics aggregator (src/stats.rs).                                   *)
(*                                                                         *)
(* Time is a discrete clock `now`.  Computation (loop checks, tally        *)
(* updates, the reduction, printing) takes no time; time passes only while *)
(* a driver is suspended at an await (the timeout race of line 64 or the   *)
(* body collect of line 68).  Every attempt takes at least one tick.       *)
(***************************************************************************)
EXTENDS Integers, Sequences, FiniteSets, TLC

\* ---- bounds of the model ------------------------------------------------
MaxConn == 2
MaxD == 2
MaxR == 2
\* connections * duration * timeout is at most MaxLoad
MaxLoad == 4
\* the clock runs until MaxOver ticks after end_time + timeout, late enough
\* for a body drain to outlast D + R
MaxOver == 1
\* main: threads, connections and the requests followed per worker
MaxThreads == 2
MaxArgConn == 3
MaxSent == 1

\* ---- inputs drawn by the environment -------------------------------------
Statuses == {200, 299, 300, 500}
BodyLens == {0, 2}
\* one clock tick in nanoseconds (Duration arithmetic of line 118)
TickNanos == 1000000

VARIABLES
    connections,   \* Worker.connections (= C / T of main.rs:60)
    duration,      \* D, in ticks
    timeout,       \* R, in ticks
    urlOk,         \* whether url.parse::<Uri>() succeeds
    now,           \* Instant::now()
    wpc,           \* position of Worker::run
    widx,          \* index of the spawn loop / of the handle being awaited
    end_time,      \* worker.rs:40
    start_time,    \* Statistics.start_time
    dpc,           \* position of each driver task
    start,         \* `start` of the attempt in progress (line 56)
    status,        \* status of the response whose body is being collected
    tally,         \* the driver's local counters (lines 49-53)
    dres,          \* what the driver's JoinHandle yields
    inflight,      \* requests of the driver outstanding at the client
    totals,        \* total_* of lines 102-106
    stats,         \* AtomicStats counters
    histogram,     \* values recorded in the histogram, in microseconds
    report,        \* what has been printed (<<>> before printing)
    reportTime,    \* clock value when the report was printed
    env,           \* history: what the target did to each driver
    errlog,        \* tracing::error! records each driver has emitted
    failLogged,    \* driver tasks whose failure the worker has logged
    histDrops,     \* history: histogram.record() errors that were dropped
    threads,       \* args.threads
    argConnections, \* args.connections
    mainUrlOk,     \* whether Url::parse(&args.url) succeeds (main.rs:54)
    mpc,           \* position of main
    midx,          \* index of main's spawn loop / await loop
    exitCode,      \* exit status of the process (-1 while it runs)
    kpc,           \* main's view of each worker task: its position
    kspawned,      \* drivers each worker task has spawned
    ksent,         \* requests the drivers of each worker have dispatched
    ksummary       \* whether each worker has printed its "Summary:" line

\* the state of main and of the worker tasks as main sees them
mainVars == <<threads, argConnections, mainUrlOk, mpc, midx, exitCode, kpc,
              kspawned, ksent, ksummary>>

\* the state of one Worker::run in detail
workerVars == <<duration, timeout, now, wpc, widx, end_time, start_time,
                dpc, start, status, tally, dres, inflight, totals, stats,
                histogram, report, reportTime, env, errlog, failLogged,
                histDrops>>

vars == <<connections, duration, timeout, urlOk, now, wpc, widx, end_time,
          start_time, dpc, start, status, tally, dres, inflight, totals,
          stats, histogram, report, reportTime, env, errlog, failLogged,
          histDrops, threads, argConnections, mainUrlOk, mpc, midx,
          exitCode, kpc, kspawned, ksent, ksummary>>

Slots == 1..MaxConn
Workers == 1..MaxThreads
Drivers == 1..connections

ZeroTally == [requests |-> 0, successes |-> 0, errors |-> 0,
              total_bytes |-> 0, total_latency |-> 0]

ZeroStats == [requests |-> 0, success |-> 0, errors |-> 0, bytes |-> 0]

ZeroEnv == [nSuccess |-> 0, nHttp |-> 0, nTransport |-> 0, nTimeout |-> 0,
            nDrainErr |-> 0, okBytes |-> 0, errBytes |-> 0, latSum |-> 0]

\* ---- the outcome as the target produced it (history only) ---------------
EnvResponse(e, s, drainOk, n, lat) ==
    [e EXCEPT !.nSuccess = @ + (IF s \in 200..299 THEN 1 ELSE 0),
              !.nHttp = @ + (IF s \in 200..299 THEN 0 ELSE 1),
              !.nDrainErr = @ + (IF drainOk THEN 0 ELSE 1),
              !.okBytes = @ + (IF s \in 200..299 /\ drainOk THEN n ELSE 0),
              !.errBytes = @ + (IF s \notin 200..299 /\ drainOk THEN n ELSE 0),
              !.latSum = @ + lat]

EnvTransport(e, lat) ==
    [e EXCEPT !.nTransport = @ + 1, !.latSum = @ + lat]

EnvTimeout(e, lat) ==
    [e EXCEPT !.nTimeout = @ + 1, !.latSum = @ + lat]

\* ---- Init ---------------------------------------------------------------
Init ==
    /\ connections \in 0..MaxConn
    /\ duration \in 0..MaxD
    /\ timeout \in 1..MaxR
    /\ connections * duration * timeout <= MaxLoad
    /\ urlOk \in BOOLEAN
    /\ now = 0
    /\ wpc = "parse"
    /\ widx = 1
    /\ end_time = 0
    /\ start_time = 0
    /\ dpc = [d \in Slots |-> "unspawned"]
    /\ start = [d \in Slots |-> 0]
    /\ status = [d \in Slots |-> 0]
    /\ tally = [d \in Slots |-> ZeroTally]
    /\ dres = [d \in Slots |-> "pending"]
    /\ inflight = [d \in Slots |-> 0]
    /\ totals = ZeroTally
    /\ stats = ZeroStats
    /\ histogram = <<>>
    /\ report = <<>>
    /\ reportTime = 0
    /\ env = [d \in Slots |-> ZeroEnv]
    /\ errlog = [d \in Slots |-> 0]
    /\ failLogged = {}
    /\ histDrops = 0
    \* main of a one-thread run has spawned this worker and awaits it
    /\ threads = 1
    /\ argConnections = connections
    /\ mainUrlOk = TRUE
    /\ mpc = "await"
    /\ midx = 1
    /\ exitCode = -1
    /\ kpc = [w \in Workers |-> "unspawned"]
    /\ kspawned = [w \in Workers |-> 0]
    /\ ksent = [w \in Workers |-> 0]
    /\ ksummary = [w \in Workers |-> FALSE]

\* ---- driver (worker.rs:48-98) -------------------------------------------
\* while Instant::now() < end_time
LoopCondLate(t) == t <= end_time
LoopCond(t) == t < end_time

\* where the driver goes after dispatching: it awaits the race of line 64
DispatchPcNoAwait == "check"
DispatchPc == "racing"

\* StatusCode::is_success
IsSuccessUpTo300(s) == 200 <= s /\ s <= 300
IsSuccess(s) == 200 <= s /\ s < 300

\* lines 74-81: the tally after a response whose body collect gave `bytes`
OnResponseCountsErrorBytes(t, s, bytes, latency) ==
    IF IsSuccess(s)
    THEN [t EXCEPT !.successes = @ + 1,
                   !.total_bytes = @ + bytes,
                   !.total_latency = @ + latency]
    ELSE [t EXCEPT !.errors = @ + 1, !.total_bytes = @ + bytes]
OnResponse(t, s, bytes, latency) ==
    IF IsSuccess(s)
    THEN [t EXCEPT !.successes = @ + 1,
                   !.total_bytes = @ + bytes,
                   !.total_latency = @ + latency]
    ELSE [t EXCEPT !.errors = @ + 1]

\* lines 83-88
OnTransportErrorUncounted(t, latency) ==
    [t EXCEPT !.total_latency = @ + latency]
OnTransportError(t, latency) ==
    [t EXCEPT !.errors = @ + 1, !.total_latency = @ + latency]

\* lines 89-94
OnTimeoutUncounted(t, latency) ==
    [t EXCEPT !.total_latency = @ + latency]
OnTimeout(t, latency) ==
    [t EXCEPT !.errors = @ + 1, !.total_latency = @ + latency]

\* what the task yields after a transport error: nothing, the loop goes on
TransportErrorPropagates == "err"
TransportErrorResult == "pending"

\* lines 55-63: the check succeeds and a request is dispatched
DAdmit(d) ==
    /\ dpc[d] = "check"
    /\ LoopCond(now)
    /\ start' = [start EXCEPT ![d] = now]
    /\ tally' = [tally EXCEPT ![d].requests = @ + 1]
    /\ inflight' = [inflight EXCEPT ![d] = @ + 1]
    /\ dpc' = [dpc EXCEPT ![d] = DispatchPc]
    /\ UNCHANGED <<connections, duration, timeout, urlOk, now, wpc, widx,
                   end_time, start_time, status, dres, totals, stats,
                   histogram, report, reportTime, env>>
    /\ UNCHANGED mainVars
    /\ UNCHANGED <<errlog, failLogged, histDrops>>

\* lines 55, 97: the check fails and the task returns Ok(tally)
DReturn(d) ==
    /\ dpc[d] = "check"
    /\ ~LoopCond(now)
    /\ dpc' = [dpc EXCEPT ![d] = "done"]
    /\ dres' = [dres EXCEPT ![d] = "ok"]
    /\ UNCHANGED <<connections, duration, timeout, urlOk, now, wpc, widx,
                   end_time, start_time, start, status, tally, inflight,
                   totals, stats, histogram, report, reportTime, env>>
    /\ UNCHANGED mainVars
    /\ UNCHANGED <<errlog, failLogged, histDrops>>

\* the R timer of time::timeout (line 64) has fired
TimerNeverFires(d) == FALSE
TimerFired(d) == now - start[d] >= timeout

\* lines 64-67: the transport call completes with a response of status s
DResponse(d, s) ==
    /\ dpc[d] = "racing"
    /\ now - start[d] >= 1
    /\ now - start[d] <= timeout
    /\ status' = [status EXCEPT ![d] = s]
    /\ dpc' = [dpc EXCEPT ![d] = "draining"]
    /\ UNCHANGED <<connections, duration, timeout, urlOk, now, wpc, widx,
                   end_time, start_time, start, tally, dres, inflight,
                   totals, stats, histogram, report, reportTime, env>>
    /\ UNCHANGED mainVars
    /\ UNCHANGED <<errlog, failLogged, histDrops>>

\* lines 68-81: body.collect() ends (with n bytes, or with an error)
DDrain(d, drainOk, n) ==
    /\ dpc[d] = "draining"
    /\ LET bytes == IF drainOk THEN n ELSE 0
           latency == now - start[d]
       IN /\ tally' = [tally EXCEPT
                          ![d] = OnResponse(@, status[d], bytes, latency)]
          /\ env' = [env EXCEPT
                        ![d] = EnvResponse(@, status[d], drainOk, n, latency)]
    /\ errlog' = [errlog EXCEPT
                     ![d] = @ + (IF IsSuccess(status[d]) THEN 0 ELSE 1)]
    /\ status' = [status EXCEPT ![d] = 0]
    /\ inflight' = [inflight EXCEPT ![d] = @ - 1]
    /\ dpc' = [dpc EXCEPT ![d] = "check"]
    /\ UNCHANGED <<connections, duration, timeout, urlOk, now, wpc, widx,
                   end_time, start_time, start, dres, totals, stats,
                   histogram, report, reportTime>>
    /\ UNCHANGED mainVars
    /\ UNCHANGED <<failLogged, histDrops>>

\* lines 83-88: the transport call completes with an error
DTransportError(d) ==
    /\ dpc[d] = "racing"
    /\ now - start[d] >= 1
    /\ now - start[d] <= timeout
    /\ LET latency == now - start[d]
       IN /\ tally' = [tally EXCEPT ![d] = OnTransportError(@, latency)]
          /\ env' = [env EXCEPT ![d] = EnvTransport(@, latency)]
    /\ errlog' = [errlog EXCEPT ![d] = @ + 1]
    /\ inflight' = [inflight EXCEPT ![d] = @ - 1]
    /\ dres' = [dres EXCEPT ![d] = TransportErrorResult]
    /\ dpc' = [dpc EXCEPT
                  ![d] = IF TransportErrorResult = "pending"
                         THEN "check" ELSE "done"]
    /\ UNCHANGED <<connections, duration, timeout, urlOk, now, wpc, widx,
                   end_time, start_time, start, status, totals, stats,
                   histogram, report, reportTime>>
    /\ UNCHANGED mainVars
    /\ UNCHANGED <<failLogged, histDrops>>

\* lines 89-94: the timer fires first; the request future is dropped
DTimeout(d) ==
    /\ dpc[d] = "racing"
    /\ TimerFired(d)
    /\ LET latency == now - start[d]
       IN /\ tally' = [tally EXCEPT ![d] = OnTimeout(@, latency)]
          /\ env' = [env EXCEPT ![d] = EnvTimeout(@, latency)]
    /\ errlog' = [errlog EXCEPT ![d] = @ + 1]
    /\ inflight' = [inflight EXCEPT ![d] = @ - 1]
    /\ dpc' = [dpc EXCEPT ![d] = "check"]
    /\ UNCHANGED <<connections, duration, timeout, urlOk, now, wpc, widx,
                   end_time, start_time, start, status, dres, totals, stats,
                   histogram, report, reportTime>>
    /\ UNCHANGED mainVars
    /\ UNCHANGED <<failLogged, histDrops>>

\* line 109: the task fails at an await (panic below it, or cancellation by
\* the runtime); its JoinHandle yields Err(JoinError) and the tally is lost
DAbort(d) ==
    /\ dpc[d] \in {"racing", "draining"}
    /\ dpc' = [dpc EXCEPT ![d] = "aborted"]
    /\ dres' = [dres EXCEPT ![d] = "joinerr"]
    /\ inflight' = [inflight EXCEPT ![d] = 0]
    /\ status' = [status EXCEPT ![d] = 0]
    /\ UNCHANGED <<connections, duration, timeout, urlOk, now, wpc, widx,
                   end_time, start_time, start, tally, totals, stats,
                   histogram, report, reportTime, env>>
    /\ UNCHANGED mainVars
    /\ UNCHANGED <<errlog, failLogged, histDrops>>

\* ---- Statistics (stats.rs) -------------------------------------------------
\* record_request, lines 30-38: the counters
RecordCountsBoth(st, success, bytes) ==
    IF success
    THEN [st EXCEPT !.requests = @ + 1, !.success = @ + 1,
                    !.errors = @ + 1, !.bytes = @ + bytes]
    ELSE [st EXCEPT !.requests = @ + 1, !.errors = @ + 1]
RecordSkipsRequestOnError(st, success, bytes) ==
    IF success
    THEN [st EXCEPT !.requests = @ + 1, !.success = @ + 1,
                    !.bytes = @ + bytes]
    ELSE [st EXCEPT !.errors = @ + 1]
RecordCounters(st, success, bytes) ==
    IF success
    THEN [st EXCEPT !.requests = @ + 1, !.success = @ + 1,
                    !.bytes = @ + bytes]
    ELSE [st EXCEPT !.requests = @ + 1, !.errors = @ + 1]

\* record_request, lines 34-35: latency.as_micros() goes into the histogram
\* (the case in which record() returns Ok)
RecordHistogram(h, success, latencyNanos) ==
    IF success THEN Append(h, latencyNanos \div 1000) ELSE h

\* f64 values as the report needs them: a quotient, NaN or infinity
NaN == [kind |-> "NaN", num |-> 0, den |-> 1]
Inf == [kind |-> "inf", num |-> 0, den |-> 1]
Quot(a, b) == [kind |-> "num", num |-> a, den |-> b]

\* a as f64 / b as f64 (IEEE 754: 0/0 is NaN, x/0 is infinite)
FDiv(a, b) ==
    IF b = 0 THEN (IF a = 0 THEN NaN ELSE Inf) ELSE Quot(a, b)

\* n/d rounded to the nearest integer, ties to even
RoundHalfEven(n, d) ==
    LET q == n \div d
        r == n % d
    IN IF 2 * r > d \/ (2 * r = d /\ q % 2 = 1) THEN q + 1 ELSE q

\* "{:.2}" of x * scale, as a count of hundredths; NaN and inf print as such
Fmt2(x, scale) ==
    IF x.kind = "num"
    THEN [kind |-> "num", val |-> RoundHalfEven(x.num * scale * 100, x.den)]
    ELSE [kind |-> x.kind, val |-> 0]

\* self.start_time.elapsed(): strictly positive, the clock is read again
\* after the client was built and the drivers were awaited
ElapsedNanos(t) == (t - start_time) * TickNanos + 1

\* lines 63-67 of stats.rs
SuccessRateUnguarded(success, requests) ==
    Fmt2(FDiv(success, requests), 100)
SuccessRate(success, requests) ==
    IF requests > 0
    THEN Fmt2(FDiv(success, requests), 100)
    ELSE [kind |-> "num", val |-> 0]

\* line 69 of stats.rs
ErrorRate(errors, requests) == Fmt2(FDiv(errors, requests), 100)

\* histogram.mean(): 0.0 for an empty histogram
RECURSIVE SeqSum(_)
SeqSum(h) == IF h = <<>> THEN 0 ELSE Head(h) + SeqSum(Tail(h))

HistMean(h) == IF h = <<>> THEN Quot(0, 1) ELSE FDiv(SeqSum(h), Len(h))

\* print_stats, lines 41-70
StatsLines(st, h, t) ==
    [rps |-> FDiv(st.requests, ElapsedNanos(t)),
     transfer |-> FDiv(st.bytes, ElapsedNanos(t)),
     latAvg |-> HistMean(h),
     successPct |-> SuccessRate(st.success, st.requests),
     successN |-> st.success,
     successOf |-> st.requests,
     errorsPct |-> ErrorRate(st.errors, st.requests),
     errorsN |-> st.errors]

\* worker.rs:124-132
SummaryLines(tot) ==
    [totalRequests |-> tot.requests,
     successfulRequests |-> tot.successes,
     failedRequests |-> tot.errors,
     detail |-> tot.requests > 0,
     successRate |-> IF tot.requests > 0
                     THEN Fmt2(FDiv(tot.successes, tot.requests), 100)
                     ELSE [kind |-> "omitted", val |-> 0],
     avgLatency |-> IF tot.requests > 0
                    THEN Fmt2(FDiv(tot.total_latency * (TickNanos \div 1000),
                                   tot.requests * 1000), 1)
                    ELSE [kind |-> "omitted", val |-> 0],
     totalBytes |-> IF tot.requests > 0
                    THEN Fmt2(FDiv(tot.total_bytes, 1024 * 1024), 1)
                    ELSE [kind |-> "omitted", val |-> 0]]

\* ---- Worker::run (worker.rs:38-136) ---------------------------------------
\* lines 39-42: parse the url, compute end_time
WParse ==
    /\ wpc = "parse"
    /\ IF urlOk
       THEN /\ end_time' = now + duration
            /\ wpc' = "spawn"
       ELSE /\ wpc' = "failed"
            /\ UNCHANGED end_time
    /\ UNCHANGED <<connections, duration, timeout, urlOk, now, widx,
                   start_time, dpc, start, status, tally, dres, inflight,
                   totals, stats, histogram, report, reportTime, env>>
    /\ UNCHANGED mainVars
    /\ UNCHANGED <<errlog, failLogged, histDrops>>

\* lines 44-100: one iteration of the spawn loop
WSpawn ==
    /\ wpc = "spawn"
    /\ widx <= connections
    /\ dpc' = [dpc EXCEPT ![widx] = "check"]
    /\ widx' = widx + 1
    /\ UNCHANGED <<connections, duration, timeout, urlOk, now, wpc,
                   end_time, start_time, start, status, tally, dres,
                   inflight, totals, stats, histogram, report, reportTime,
                   env>>
    /\ UNCHANGED mainVars
    /\ UNCHANGED <<errlog, failLogged, histDrops>>

\* lines 102-106: the spawn loop is over, the totals start at zero
WTotals ==
    /\ wpc = "spawn"
    /\ widx > connections
    /\ totals' = ZeroTally
    /\ wpc' = "reduce"
    /\ widx' = 1
    /\ UNCHANGED <<connections, duration, timeout, urlOk, now, end_time,
                   start_time, dpc, start, status, tally, dres, inflight,
                   stats, histogram, report, reportTime, env>>
    /\ UNCHANGED mainVars
    /\ UNCHANGED <<errlog, failLogged, histDrops>>

\* lines 110-114
MergeDropsErrors(tot, t) ==
    [requests |-> tot.requests + t.requests,
     successes |-> tot.successes + t.successes,
     errors |-> tot.errors,
     total_bytes |-> tot.total_bytes + t.total_bytes,
     total_latency |-> tot.total_latency + t.total_latency]
Merge(tot, t) ==
    [requests |-> tot.requests + t.requests,
     successes |-> tot.successes + t.successes,
     errors |-> tot.errors + t.errors,
     total_bytes |-> tot.total_bytes + t.total_bytes,
     total_latency |-> tot.total_latency + t.total_latency]

\* line 118: Duration::from_nanos(latency.as_nanos() / requests)
AvgLatencyUndivided(t) == t.total_latency * TickNanos
AvgLatencyNanos(t) == (t.total_latency * TickNanos) \div t.requests

\* line 109: handle.await has an outcome to give
HandleNotAwaited(i) == TRUE
HandleReady(i) == dres[i] # "pending"

\* lines 108-122: handle.await of the next handle has completed; a tally with
\* requests > 0 is recorded (stats.rs:29-39), where histogram.record() gives
\* Ok or an Err that unwrap_or_default() drops; an Err of the handle falls
\* through the `if let` with nothing done
WAwait ==
    /\ wpc = "reduce"
    /\ widx <= connections
    /\ HandleReady(widx)
    /\ LET t == tally[widx]
       IN IF dres[widx] = "ok"
          THEN /\ totals' = Merge(totals, t)
               /\ IF t.requests > 0
                  THEN /\ stats' = RecordCounters(stats, t.successes > 0,
                                       t.total_bytes \div t.requests)
                       /\ \E recOk \in BOOLEAN :
                             IF t.successes > 0 /\ ~recOk
                             THEN /\ histogram' = histogram
                                  /\ histDrops' = histDrops + 1
                             ELSE /\ histogram' = RecordHistogram(histogram,
                                                      t.successes > 0,
                                                      AvgLatencyNanos(t))
                                  /\ histDrops' = histDrops
                  ELSE UNCHANGED <<stats, histogram, histDrops>>
          ELSE UNCHANGED <<totals, stats, histogram, histDrops>>
    /\ widx' = widx + 1
    /\ UNCHANGED <<connections, duration, timeout, urlOk, now, wpc,
                   end_time, start_time, dpc, start, status, tally, dres,
                   inflight, report, reportTime, env>>
    /\ UNCHANGED mainVars
    /\ UNCHANGED <<errlog, failLogged>>

\* lines 124-135: the summary, then print_stats
WPrint ==
    /\ wpc = "reduce"
    /\ widx > connections
    /\ report' = [summary |-> SummaryLines(totals),
                  statistics |-> StatsLines(stats, histogram, now)]
    /\ reportTime' = now
    /\ wpc' = "done"
    /\ UNCHANGED <<connections, duration, timeout, urlOk, now, widx,
                   end_time, start_time, dpc, start, status, tally, dres,
                   inflight, totals, stats, histogram, env>>
    /\ UNCHANGED mainVars
    /\ UNCHANGED <<errlog, failLogged, histDrops>>

\* ---- time -----------------------------------------------------------------
\* a step that needs no waiting is taken before the clock moves
WorkerCanStep ==
    \/ wpc \in {"parse", "spawn"}
    \/ wpc = "reduce" /\ widx > connections
    \/ wpc = "reduce" /\ widx <= connections /\ HandleReady(widx)

DriverCanStep(d) ==
    \/ dpc[d] = "check"
    \/ dpc[d] = "racing" /\ TimerFired(d)

Tick ==
    /\ wpc \notin {"done", "failed"}
    /\ now < end_time + timeout + MaxOver
    /\ ~WorkerCanStep
    /\ \A d \in Slots : ~DriverCanStep(d)
    /\ now' = now + 1
    /\ UNCHANGED <<connections, duration, timeout, urlOk, wpc, widx,
                   end_time, start_time, dpc, start, status, tally, dres,
                   inflight, totals, stats, histogram, report, reportTime,
                   env>>
    /\ UNCHANGED mainVars
    /\ UNCHANGED <<errlog, failLogged, histDrops>>

Next ==
    \/ WParse
    \/ WSpawn
    \/ WTotals
    \/ WAwait
    \/ WPrint
    \/ Tick
    \/ \E d \in Slots : DAdmit(d)
    \/ \E d \in Slots : DReturn(d)
    \/ \E d \in Slots : \E s \in Statuses : DResponse(d, s)
    \/ \E d \in Slots : \E ok \in BOOLEAN : \E n \in BodyLens :
          DDrain(d, ok, n)
    \/ \E d \in Slots : DTransportError(d)
    \/ \E d \in Slots : DTimeout(d)
    \/ \E d \in Slots : DAbort(d)

Spec == Init /\ [][Next]_vars

\* the runs in which the worker has drivers and no driver task fails
InitDrivers == Init /\ connections >= 1

NextNoAbort ==
    \/ WParse
    \/ WSpawn
    \/ WTotals
    \/ WAwait
    \/ WPrint
    \/ Tick
    \/ \E d \in Slots : DAdmit(d)
    \/ \E d \in Slots : DReturn(d)
    \/ \E d \in Slots : \E s \in Statuses : DResponse(d, s)
    \/ \E d \in Slots : \E ok \in BOOLEAN : \E n \in BodyLens :
          DDrain(d, ok, n)
    \/ \E d \in Slots : DTransportError(d)
    \/ \E d \in Slots : DTimeout(d)

SpecNoAbort == InitDrivers /\ [][NextNoAbort]_vars

\* ---- main (main.rs:46-83) and the worker tasks as main sees them ----------
\* the Worker::run variables while main and all its workers are followed
WorkerIdle ==
    /\ duration = 0
    /\ timeout = 1
    /\ now = 0
    /\ wpc = "parse"
    /\ widx = 1
    /\ end_time = 0
    /\ start_time = 0
    /\ dpc = [d \in Slots |-> "unspawned"]
    /\ start = [d \in Slots |-> 0]
    /\ status = [d \in Slots |-> 0]
    /\ tally = [d \in Slots |-> ZeroTally]
    /\ dres = [d \in Slots |-> "pending"]
    /\ inflight = [d \in Slots |-> 0]
    /\ totals = ZeroTally
    /\ stats = ZeroStats
    /\ histogram = <<>>
    /\ report = <<>>
    /\ reportTime = 0
    /\ env = [d \in Slots |-> ZeroEnv]
    /\ errlog = [d \in Slots |-> 0]
    /\ failLogged = {}
    /\ histDrops = 0

InitMain ==
    /\ threads \in 1..MaxThreads
    /\ argConnections \in 0..MaxArgConn
    /\ mainUrlOk \in BOOLEAN
    /\ urlOk \in BOOLEAN
    /\ connections = 0
    /\ mpc = "validate"
    /\ midx = 1
    /\ exitCode = -1
    /\ kpc = [w \in Workers |-> "unspawned"]
    /\ kspawned = [w \in Workers |-> 0]
    /\ ksent = [w \in Workers |-> 0]
    /\ ksummary = [w \in Workers |-> FALSE]
    /\ WorkerIdle

\* main.rs:60
ConnectionsPerThreadCeil(c, t) == (c + t - 1) \div t
ConnectionsPerThread(c, t) == c \div t

\* worker.rs:39: url.parse::<Uri>()? returns the error to main
UriParseUnchecked(ok) == "spawn"
UriParseResult(ok) == IF ok THEN "spawn" ELSE "failed"

\* main.rs:54: Url::parse(&args.url)?
MValidate ==
    /\ mpc = "validate"
    /\ IF mainUrlOk
       THEN mpc' = "split" /\ UNCHANGED exitCode
       ELSE mpc' = "exit" /\ exitCode' = 1
    /\ UNCHANGED <<connections, urlOk, threads, argConnections, mainUrlOk,
                   midx, kpc, kspawned, ksent, ksummary>>
    /\ UNCHANGED workerVars

\* main.rs:56-61
MSplit ==
    /\ mpc = "split"
    /\ connections' = ConnectionsPerThread(argConnections, threads)
    /\ mpc' = "spawn"
    /\ midx' = 1
    /\ UNCHANGED <<urlOk, threads, argConnections, mainUrlOk, exitCode, kpc,
                   kspawned, ksent, ksummary>>
    /\ UNCHANGED workerVars

\* main.rs:64-75: one iteration of the spawn loop
MSpawn ==
    /\ mpc = "spawn"
    /\ midx <= threads
    /\ kpc' = [kpc EXCEPT ![midx] = "parse"]
    /\ midx' = midx + 1
    /\ UNCHANGED <<connections, urlOk, threads, argConnections, mainUrlOk,
                   mpc, exitCode, kspawned, ksent, ksummary>>
    /\ UNCHANGED workerVars

\* main.rs:75-78: the spawn loop is over
MSpawned ==
    /\ mpc = "spawn"
    /\ midx > threads
    /\ mpc' = "await"
    /\ midx' = 1
    /\ UNCHANGED <<connections, urlOk, threads, argConnections, mainUrlOk,
                   exitCode, kpc, kspawned, ksent, ksummary>>
    /\ UNCHANGED workerVars

\* main.rs:78-80: handle.await?? of the next worker
MAwait ==
    /\ mpc = "await"
    /\ midx <= threads
    /\ kpc[midx] \in {"done", "failed"}
    /\ IF kpc[midx] = "failed"
       THEN mpc' = "exit" /\ exitCode' = 1 /\ UNCHANGED midx
       ELSE midx' = midx + 1 /\ UNCHANGED <<mpc, exitCode>>
    /\ UNCHANGED <<connections, urlOk, threads, argConnections, mainUrlOk,
                   kpc, kspawned, ksent, ksummary>>
    /\ UNCHANGED workerVars

\* main.rs:82: Ok(())
MExit ==
    /\ mpc = "await"
    /\ midx > threads
    /\ mpc' = "exit"
    /\ exitCode' = 0
    /\ UNCHANGED <<connections, urlOk, threads, argConnections, mainUrlOk,
                   midx, kpc, kspawned, ksent, ksummary>>
    /\ UNCHANGED workerVars

\* worker.rs:39 in worker task w
KParse(w) ==
    /\ mpc # "exit"
    /\ kpc[w] = "parse"
    /\ kpc' = [kpc EXCEPT ![w] = UriParseResult(urlOk)]
    /\ UNCHANGED <<connections, urlOk, threads, argConnections, mainUrlOk,
                   mpc, midx, exitCode, kspawned, ksent, ksummary>>
    /\ UNCHANGED workerVars

\* worker.rs:44-100 in worker task w: one driver is spawned
KSpawn(w) ==
    /\ mpc # "exit"
    /\ kpc[w] = "spawn"
    /\ kspawned[w] < connections
    /\ kspawned' = [kspawned EXCEPT ![w] = @ + 1]
    /\ UNCHANGED <<connections, urlOk, threads, argConnections, mainUrlOk,
                   mpc, midx, exitCode, kpc, ksent, ksummary>>
    /\ UNCHANGED workerVars

\* worker.rs:44, 102: the spawn loop of worker task w is over
KSpawned(w) ==
    /\ mpc # "exit"
    /\ kpc[w] = "spawn"
    /\ kspawned[w] >= connections
    /\ kpc' = [kpc EXCEPT ![w] = "reduce"]
    /\ UNCHANGED <<connections, urlOk, threads, argConnections, mainUrlOk,
                   mpc, midx, exitCode, kspawned, ksent, ksummary>>
    /\ UNCHANGED workerVars

\* worker.rs:55-64: a driver of worker task w dispatches a request
KRequest(w) ==
    /\ mpc # "exit"
    /\ kpc[w] \in {"spawn", "reduce"}
    /\ kspawned[w] > 0
    /\ ksent[w] < MaxSent
    /\ ksent' = [ksent EXCEPT ![w] = @ + 1]
    /\ UNCHANGED <<connections, urlOk, threads, argConnections, mainUrlOk,
                   mpc, midx, exitCode, kpc, kspawned, ksummary>>
    /\ UNCHANGED workerVars

\* worker.rs:108-135: worker task w has awaited its drivers and prints
KReport(w) ==
    /\ mpc # "exit"
    /\ kpc[w] = "reduce"
    /\ ksummary' = [ksummary EXCEPT ![w] = TRUE]
    /\ kpc' = [kpc EXCEPT ![w] = "done"]
    /\ UNCHANGED <<connections, urlOk, threads, argConnections, mainUrlOk,
                   mpc, midx, exitCode, kspawned, ksent>>
    /\ UNCHANGED workerVars

NextMain ==
    \/ MValidate
    \/ MSplit
    \/ MSpawn
    \/ MSpawned
    \/ MAwait
    \/ MExit
    \/ \E w \in Workers : KParse(w)
    \/ \E w \in Workers : KSpawn(w)
    \/ \E w \in Workers : KSpawned(w)
    \/ \E w \in Workers : KRequest(w)
    \/ \E w \in Workers : KReport(w)

SpecMain == InitMain /\ [][NextMain]_vars

\* the scheduler runs every task that can take a step, the timers fire, the
\* clock advances, and a body that is being collected ends at some time; no
\* response, transport error or task failure is ever required to happen
Fairness ==
    /\ WF_vars(WParse)
    /\ WF_vars(WSpawn)
    /\ WF_vars(WTotals)
    /\ WF_vars(WAwait)
    /\ WF_vars(WPrint)
    /\ WF_vars(Tick)
    /\ \A d \in Slots :
          /\ WF_vars(DAdmit(d))
          /\ WF_vars(DReturn(d))
          /\ WF_vars(DTimeout(d))
          /\ WF_vars(\E ok \in BOOLEAN : \E n \in BodyLens : DDrain(d, ok, n))

SpecLive == Init /\ [][Next]_vars /\ Fairness

\* ---- helpers for the properties ------------------------------------------
\* attempts of driver d that have ended, by what the target did
EnvEnded(e) == e.nSuccess + e.nHttp + e.nTransport + e.nTimeout
EnvFailed(e) == e.nHttp + e.nTransport + e.nTimeout

\* body bytes delivered on 2xx responses to the drivers 1..n that returned
RECURSIVE OkBytesUpTo(_)
OkBytesUpTo(n) ==
    IF n = 0 THEN 0
    ELSE OkBytesUpTo(n - 1) + (IF dres[n] = "ok" THEN env[n].okBytes ELSE 0)

RECURSIVE InFlightUpTo(_)
InFlightUpTo(n) == IF n = 0 THEN 0 ELSE InFlightUpTo(n - 1) + inflight[n]

\* the longest body the target sends
MaxBody == CHOOSE k \in BodyLens : \A n \in BodyLens : n <= k

Printed == wpc = "done"
ZeroPrinted == [kind |-> "num", val |-> 0]

\* C1: the totals a worker prints satisfy
\* total_requests = total_successes + total_errors, whatever the drivers did
\* and also when some driver task failed.
C1_TotalsBalance ==
    Printed =>
        report.summary.totalRequests =
            report.summary.successfulRequests + report.summary.failedRequests

C1_Witness ==
    /\ Printed
    /\ connections = 2
    /\ \E d \in Drivers : dres[d] = "joinerr" /\ tally[d].requests > 0
    /\ report.summary.successfulRequests > 0
    /\ report.summary.failedRequests > 0

\* C2: a driver's bytes are exactly the body bytes drained on 2xx responses
\* (non-2xx responses, transport errors and timeouts add nothing), the
\* worker's total_bytes is their sum over the drivers that returned; with
\* only non-2xx answers it is 0, and when every answer is a 2xx with a
\* k-byte body it is k * total_successes.
C2_BytesOnlyFromSuccess ==
    /\ \A d \in Slots : tally[d].total_bytes = env[d].okBytes
    /\ Printed =>
        /\ totals.total_bytes = OkBytesUpTo(connections)
        /\ (\A d \in Drivers : env[d].nSuccess = 0) => totals.total_bytes = 0
        /\ (\A d \in Drivers :
                /\ EnvFailed(env[d]) = 0
                /\ env[d].okBytes = MaxBody * env[d].nSuccess)
            => totals.total_bytes = MaxBody * totals.successes

C2_Witness ==
    /\ Printed
    /\ totals.total_bytes > 0
    /\ \E d \in Drivers :
          dres[d] = "ok" /\ env[d].errBytes > 0 /\ env[d].okBytes > 0

\* C3: every attempt that ends is classified once: successes grows by one
\* iff the target answered in time with a status in [200,300); errors grows
\* by one iff it answered with another status, the transport failed or the
\* timer fired; a failed body drain adds no bytes and leaves the
\* classification to the status; a returned driver has classified every
\* attempt it was admitted to.
C3_Step(d) ==
    LET t == tally[d]
        u == tally'[d]
        e == env[d]
        f == env'[d]
    IN /\ u.successes = t.successes + 1 <=> f.nSuccess = e.nSuccess + 1
       /\ u.errors = t.errors + 1 <=> EnvFailed(f) = EnvFailed(e) + 1
       /\ u.successes \in {t.successes, t.successes + 1}
       /\ u.errors \in {t.errors, t.errors + 1}
       /\ u.successes + u.errors =
             t.successes + t.errors + (EnvEnded(f) - EnvEnded(e))
       /\ EnvEnded(f) - EnvEnded(e) \in {0, 1}
       /\ (dpc[d] = "racing" /\ dpc'[d] = "draining") =>
             /\ now - start[d] <= timeout
             /\ u = t
       /\ f.nSuccess = e.nSuccess + 1 =>
             /\ dpc[d] = "draining"
             /\ status[d] \in 200..299
       /\ f.nTimeout = e.nTimeout + 1 => now - start[d] >= timeout
       /\ f.nDrainErr = e.nDrainErr + 1 =>
             /\ u.total_bytes = t.total_bytes
             /\ u.successes = t.successes + 1 <=> status[d] \in 200..299
             /\ u.errors = t.errors + 1 <=> status[d] \notin 200..299
       /\ dres'[d] = "ok" => u.requests = EnvEnded(f)

C3_Classification == [][\A d \in Slots : C3_Step(d)]_vars

C3_Witness ==
    \E d \in Drivers :
        /\ dres[d] = "ok"
        /\ env[d].nDrainErr = 1
        /\ env[d].nSuccess = 1
        /\ env[d].nTimeout = 1
        /\ env[d].nHttp = 0
        /\ tally[d].successes = 1
        /\ tally[d].errors = 1
        /\ tally[d].total_bytes = 0

\* C4: a driver has at most one request in flight, and none while it is at
\* its loop check (it dispatches only after the previous attempt ended); so
\* at most `connections` requests are in flight in the worker, one if C = 1.
C4_OneInFlight ==
    /\ \A d \in Slots :
          /\ inflight[d] \in {0, 1}
          /\ inflight[d] = 1 <=> dpc[d] \in {"racing", "draining"}
    /\ InFlightUpTo(MaxConn) <= connections

C4_Witness ==
    /\ connections = 2
    /\ \A d \in Drivers : inflight[d] = 1
    /\ \E d \in Drivers : tally[d].requests = 2

\* C5: for D > 0 the time from the start of run to the report lies in
\* [D, D + R] (steps that do not wait take no time here, so eps is 0).
RunStart == end_time - duration

C5_WallClock ==
    (Printed /\ duration > 0) =>
        /\ reportTime - RunStart >= duration
        /\ reportTime - RunStart <= duration + timeout

\* C6: a request is dispatched only from the loop check and only while
\* now < end_time; the check that finds now >= end_time ends the driver; an
\* attempt in flight at or after the deadline is not cut short by it: it ends
\* by its own outcome (the timer only after R) and is counted.
C6_Step(d) ==
    LET t == tally[d]
        u == tally'[d]
    IN /\ u.requests # t.requests =>
             /\ u.requests = t.requests + 1
             /\ dpc[d] = "check"
             /\ now < end_time
             /\ dpc'[d] = "racing"
       /\ (dpc[d] = "check" /\ dpc'[d] # "check") =>
             IF now < end_time
             THEN dpc'[d] = "racing" /\ u.requests = t.requests + 1
             ELSE dpc'[d] = "done" /\ dres'[d] = "ok" /\ u = t
       /\ (dpc[d] \in {"racing", "draining"} /\ dpc'[d] = "check") =>
             /\ u.successes + u.errors = t.successes + t.errors + 1
             /\ EnvEnded(env'[d]) = EnvEnded(env[d]) + 1
             /\ env'[d].nTimeout # env[d].nTimeout =>
                   now - start[d] >= timeout
       /\ (dpc[d] \in {"racing", "draining"} /\ dpc'[d] # dpc[d]) =>
             dpc'[d] \in {"draining", "check", "aborted"}
       /\ dres'[d] = "ok" => u.requests = u.successes + u.errors

C6_DeadlineAdmitsOnly == [][\A d \in Slots : C6_Step(d)]_vars

C6_Witness ==
    \E d \in Drivers :
        /\ dpc[d] = "check"
        /\ now > end_time
        /\ start[d] < end_time
        /\ tally[d].requests = 2
        /\ tally[d].successes = 1
        /\ tally[d].errors = 1

\* C7: for D > 0, a driver that returned and whose target timed out on every
\* request has requests > 0, successes = 0, errors = requests, bytes = 0.
C7_AllTimeouts ==
    \A d \in Drivers :
        (/\ dres[d] = "ok"
         /\ duration > 0
         /\ env[d].nSuccess = 0
         /\ env[d].nHttp = 0
         /\ env[d].nTransport = 0)
        => /\ tally[d].requests > 0
           /\ tally[d].successes = 0
           /\ tally[d].errors = tally[d].requests
           /\ tally[d].total_bytes = 0

C7_Witness ==
    \E d \in Drivers :
        /\ dres[d] = "ok"
        /\ env[d].nTimeout = 2
        /\ EnvEnded(env[d]) = 2
        /\ tally[d].errors = 2

\* C8: when the aggregator's request count is 0, every rate and every
\* percentage of the report is 0, the percentage of the Errors line included.
C8_ZeroGuarded ==
    (Printed /\ stats.requests = 0) =>
        /\ report.statistics.rps.kind = "num"
        /\ report.statistics.rps.num = 0
        /\ report.statistics.transfer.kind = "num"
        /\ report.statistics.transfer.num = 0
        /\ report.statistics.successPct = ZeroPrinted
        /\ report.statistics.errorsPct = ZeroPrinted

\* C9: the counts of the Success and Errors lines equal the totals of the
\* Summary of the same report.
C9_ErrorsLineMatchesSummary ==
    Printed =>
        /\ report.statistics.errorsN = report.summary.failedRequests
        /\ report.statistics.successN = report.summary.successfulRequests
        /\ report.statistics.successOf = report.summary.totalRequests

\* C10: after a transport error, a timeout or a non-2xx status the driver is
\* back at its loop check with nothing returned; a driver whose loop ended
\* has returned its tally, never a failure value.
C10_Step(d) ==
    /\ EnvFailed(env'[d]) # EnvFailed(env[d]) =>
          /\ dpc'[d] = "check"
          /\ dres'[d] = "pending"
    /\ dpc'[d] = "done" => dres'[d] = "ok"
    /\ dres'[d] \in {"pending", "ok", "joinerr"}
    /\ dres'[d] = "joinerr" <=> dpc'[d] = "aborted"

C10_FailuresNotFatal == [][\A d \in Slots : C10_Step(d)]_vars

C10_Witness ==
    \E d \in Drivers :
        /\ dres[d] = "ok"
        /\ env[d].nTransport = 1
        /\ env[d].nHttp = 1
        /\ tally[d].requests = 2

\* ---- the worker's reduction and the aggregator ---------------------------
\* driver d returned a tally that the worker records
Recorded(d) == dres[d] = "ok" /\ tally[d].requests > 0

\* the drivers whose handle the worker has awaited
Awaited ==
    IF wpc \in {"reduce", "done"} THEN 1..(widx - 1) ELSE {}

\* field f summed over the tallies of the returned drivers among 1..n
RECURSIVE OkSumUpTo(_, _)
OkSumUpTo(f, n) ==
    IF n = 0 THEN 0
    ELSE OkSumUpTo(f, n - 1) + (IF dres[n] = "ok" THEN tally[n][f] ELSE 0)

\* C13: when a driver task failed, the worker logs the failure, counts
\* nothing of that driver in any total, feeds no aggregator record for it,
\* and still merges the other drivers and prints the report.
C13_DriverFailureHandled ==
    /\ \A d \in Awaited : dres[d] # "ok" => d \in failLogged
    /\ Printed =>
          /\ totals.requests = OkSumUpTo("requests", connections)
          /\ totals.successes = OkSumUpTo("successes", connections)
          /\ totals.errors = OkSumUpTo("errors", connections)
          /\ totals.total_bytes = OkSumUpTo("total_bytes", connections)
          /\ totals.total_latency = OkSumUpTo("total_latency", connections)
          /\ stats.requests = Cardinality({d \in Drivers : Recorded(d)})

\* C15 (as claimed): requests = successes + errors holds for a driver's tally
\* also while the driver is suspended at the race or at the body drain.
C15_BalancedAtEveryYield ==
    \A d \in Slots :
        dpc[d] \in {"racing", "draining", "done"} =>
            tally[d].requests = tally[d].successes + tally[d].errors

\* C15 (amended): requests = successes + errors holds at every loop check and
\* at return; while an attempt is in flight (the driver is suspended at the
\* race or at the body drain) requests = successes + errors + 1.
C15_BalancedBetweenAttempts ==
    \A d \in Slots :
        /\ dpc[d] \in {"unspawned", "check", "done"} =>
              tally[d].requests = tally[d].successes + tally[d].errors
        /\ dpc[d] \in {"racing", "draining"} =>
              tally[d].requests = tally[d].successes + tally[d].errors + 1

C15_Witness ==
    \E d \in Drivers :
        /\ dpc[d] = "draining"
        /\ tally[d].requests = 2
        /\ tally[d].successes + tally[d].errors = 1

\* C16: a driver's total_latency is the sum of the latencies of all its
\* ended attempts, whatever their outcome.
C16_LatencyOfEveryAttempt ==
    \A d \in Slots : tally[d].total_latency = env[d].latSum

\* C17: record always adds one to requests; on success it adds one to
\* successes, the bytes to bytes and the latency in microseconds to the
\* histogram, leaving errors; otherwise it adds one to errors and leaves
\* successes, bytes and the histogram.  A failed histogram.record() is
\* dropped: the counters stay updated and the worker goes on.
C17_Step ==
    (stats' # stats \/ histogram' # histogram \/ histDrops' # histDrops) =>
        LET t == tally[widx]
            success == t.successes > 0
            bytes == t.total_bytes \div t.requests
            micros == AvgLatencyNanos(t) \div 1000
        IN /\ wpc = "reduce" /\ widx <= connections /\ Recorded(widx)
           /\ stats'.requests = stats.requests + 1
           /\ IF success
              THEN /\ stats'.success = stats.success + 1
                   /\ stats'.bytes = stats.bytes + bytes
                   /\ stats'.errors = stats.errors
                   /\ \/ /\ histogram' = Append(histogram, micros)
                         /\ histDrops' = histDrops
                      \/ /\ histogram' = histogram
                         /\ histDrops' = histDrops + 1
              ELSE /\ stats'.errors = stats.errors + 1
                   /\ stats'.success = stats.success
                   /\ stats'.bytes = stats.bytes
                   /\ histogram' = histogram
                   /\ histDrops' = histDrops
           /\ wpc' = "reduce" /\ widx' = widx + 1

C17_RecordEffect == [][C17_Step]_vars

C17_Witness ==
    /\ stats.requests = 2
    /\ stats.success = 1
    /\ stats.errors = 1
    /\ stats.bytes > 0
    /\ Len(histogram) = 1
    /\ histDrops = 0

\* C18: the aggregator gets one record per returned tally with requests > 0
\* and none for the others, with success = (successes > 0),
\* bytes = floor(total_bytes / requests) and the mean latency; its requests
\* counter is the number of drivers that made a request, not of requests.
RECURSIVE ExpectedBytes(_)
ExpectedBytes(n) ==
    IF n = 0 THEN 0
    ELSE ExpectedBytes(n - 1)
         + (IF Recorded(n) /\ tally[n].successes > 0
            THEN CHOOSE q \in 0..tally[n].total_bytes :
                    /\ q * tally[n].requests <= tally[n].total_bytes
                    /\ (q + 1) * tally[n].requests > tally[n].total_bytes
            ELSE 0)

RECURSIVE ExpectedHistogram(_)
ExpectedHistogram(n) ==
    IF n = 0 THEN <<>>
    ELSE IF Recorded(n) /\ tally[n].successes > 0
         THEN Append(ExpectedHistogram(n - 1),
                     (tally[n].total_latency * TickNanos)
                         \div (tally[n].requests * 1000))
         ELSE ExpectedHistogram(n - 1)

C19_WritesAfterAllReturned ==
    stats.requests > 0 => \A d \in Drivers : dres[d] # "pending"

\* C19 (amended): the aggregator is written only by the worker task, one
\* record at a time, each after the driver it is about and all drivers
\* spawned before it have ended and after the deadline; once it has been
\* written no driver dispatches a request, but drivers spawned later may
\* still have an attempt in flight.
C19_Step ==
    /\ stats' # stats =>
          /\ wpc = "reduce"
          /\ dres[widx] = "ok"
          /\ \A j \in 1..widx : dres[j] # "pending"
          /\ now >= end_time
          /\ stats'.requests = stats.requests + 1
          /\ widx' = widx + 1
    /\ (wpc = "reduce" /\ widx' # widx) => dres[widx] # "pending"
    /\ stats.requests > 0 =>
          \A d \in Slots : tally'[d].requests = tally[d].requests

C19_WritesAfterOwnDriver == [][C19_Step]_vars

C19_Witness ==
    /\ stats.requests = 1
    /\ \E d \in Drivers : dpc[d] = "draining" /\ dres[d] = "pending"

\* C20: the aggregator counters always satisfy requests = success + errors
\* and requests <= the number of drivers, bytes is at most the worker's
\* total_bytes, and no counter ever decreases.
C20_Step ==
    /\ stats'.requests = stats'.success + stats'.errors
    /\ stats'.requests <= connections
    /\ stats'.bytes <= totals'.total_bytes
    /\ stats'.requests >= stats.requests
    /\ stats'.success >= stats.success
    /\ stats'.errors >= stats.errors
    /\ stats'.bytes >= stats.bytes

C20_AggregatorCounters == [][C20_Step]_vars

C20_Witness ==
    /\ stats.requests = 2
    /\ stats.success >= 1
    /\ stats.bytes > 0
    /\ stats.bytes < totals.total_bytes

\* C14: with a valid url every spawned driver eventually ends (it returns
\* from a failing deadline check, or its task has failed) and the worker
\* eventually prints its report.
C14_Termination ==
    urlOk => <>(Printed /\ \A d \in Drivers : dpc[d] \in {"done", "aborted"})

C14_Witness ==
    /\ Printed
    /\ connections = 2
    /\ \A d \in Drivers : dpc[d] = "done" /\ tally[d].requests = 2
    /\ \E d \in Drivers : env[d].nTimeout >= 1
    /\ \E d \in Drivers : env[d].nSuccess >= 1

\* drivers spawned by the worker tasks 1..n
RECURSIVE SpawnedUpTo(_)
SpawnedUpTo(n) == IF n = 0 THEN 0 ELSE SpawnedUpTo(n - 1) + kspawned[n]

\* C11: with a url that fails main's check or the worker's Uri parse, no
\* driver is spawned, no request is dispatched, no worker prints "Summary:",
\* and the process never exits with status 0; when main's check fails no
\* worker task is even started.
C11_InvalidUrlNoTraffic ==
    (~mainUrlOk \/ ~urlOk) =>
        /\ \A w \in Workers :
              /\ kspawned[w] = 0
              /\ ksent[w] = 0
              /\ ~ksummary[w]
              /\ kpc[w] \in {"unspawned", "parse", "failed"}
        /\ exitCode # 0
        /\ mpc = "exit" => exitCode = 1
        /\ ~mainUrlOk => \A w \in Workers : kpc[w] = "unspawned"

C11_Witness ==
    /\ mainUrlOk
    /\ ~urlOk
    /\ threads = 2
    /\ argConnections >= 2
    /\ exitCode = 1
    /\ kpc[1] = "failed"

\* C12: each of the T workers spawns exactly floor(C / T) drivers, T *
\* floor(C / T) in the whole run; the C mod T remaining connections are never
\* created, and none at all when C < T.
C12_FloorSplit ==
    /\ \A w \in Workers :
          /\ kspawned[w] * threads <= argConnections
          /\ w > threads => kspawned[w] = 0
          /\ (w <= threads /\ kpc[w] \in {"reduce", "done"}) =>
                (kspawned[w] + 1) * threads > argConnections
    /\ exitCode = 0 =>
          /\ argConnections - SpawnedUpTo(MaxThreads) = argConnections % threads
          /\ argConnections < threads => SpawnedUpTo(MaxThreads) = 0

C12_Witness ==
    /\ exitCode = 0
    /\ threads = 2
    /\ argConnections = 3
    /\ kspawned[1] = 1
    /\ kspawned[2] = 1
    /\ ksent[1] = 1

====
